---- MODULE Spec2Model ----
(***************************************************************************)
(* Model of run_page/csv_exporter.py (class CSVExporter): the formatter,   *)
(* the lap metrics calculator, the stream segmenter, the two ingestion     *)
(* paths, the report generator and the batch export loops.                 *)
(*                                                                         *)
(* Numbers.  Distances are integers in meters and times integers in        *)
(* seconds (the Strava stream channels are such numbers).  A kilometre     *)
(* value (meters / 1000.0) is kept as a fixed-point number counted in      *)
(* thousandths of a kilometre, so that no digit is lost.  Python's None is *)
(* the integer None below; a dict is a function whose DOMAIN is the set of *)
(* keys it has; an absent or empty list is the empty sequence (the code    *)
(* only tests lists by truthiness, which does not tell the two apart).     *)
(***************************************************************************)
EXTENDS Integers, Sequences, FiniteSets, TLC

(***************************************************************************)
(* Bounds of the model                                                     *)
(***************************************************************************)
MaxLen == 3          \* longest drawn sample series
MaxWin == 3          \* longest drawn sample window of the metrics calculator

None == -1000        \* Python's None (never a sample value)

(***************************************************************************)
(* Generic helpers: Python list operations                                 *)
(***************************************************************************)
RECURSIVE SeqSum(_)
SeqSum(s) == IF s = <<>> THEN 0 ELSE Head(s) + SeqSum(Tail(s))

RECURSIVE SeqMax(_)
SeqMax(s) == IF Len(s) = 1 THEN s[1]
             ELSE LET m == SeqMax(Tail(s)) IN IF s[1] >= m THEN s[1] ELSE m

Abs(x) == IF x < 0 THEN -x ELSE x

Min2(a, b) == IF a < b THEN a ELSE b

\* s[lo:hi] of Python for 0 <= lo, 0 <= hi: 0-based, half-open, clamped to the list
Slice(s, lo, hi) ==
    LET h == Min2(hi, Len(s))
    IN  IF lo >= h THEN <<>> ELSE [k \in 1..(h - lo) |-> s[lo + k]]

RECURSIVE SeqsUpTo(_, _)
SeqsUpTo(S, n) ==
    IF n = 0 THEN {<<>>}
    ELSE LET P == SeqsUpTo(S, n - 1)
         IN  P \cup {Append(p, x) : p \in {q \in P : Len(q) = n - 1}, x \in S}

EmptyDict == <<>>

Has(d, k) == k \in DOMAIN d

\* dict.get(k, default)
Get(d, k, default) == IF k \in DOMAIN d THEN d[k] ELSE default

(***************************************************************************)
(* Formatter                                                               *)
(***************************************************************************)
\* format_time: "{minutes}:{secs:02d}.{millis}" as <<minutes, secs, millis>>
format_time(seconds) ==
    IF seconds = None \/ seconds = 0 \/ seconds <= 0 THEN <<0, 0, 0>>
    ELSE <<seconds \div 60, seconds % 60, 0>>

\* format_pace of the speed num/den m/s: "{minutes}:{seconds:02d}" as <<minutes, seconds>>
format_pace(num, den) ==
    IF num = 0 \/ num <= 0 THEN <<0, 0>>
    ELSE LET seconds_per_km == (1000 * den) \div num
         IN  <<seconds_per_km \div 60, seconds_per_km % 60>>

calculate_pace_from_distance_time(distance_meters, time_seconds) ==
    IF distance_meters = None \/ distance_meters <= 0
       \/ time_seconds = None \/ time_seconds <= 0
    THEN <<0, 0>>
    ELSE format_pace(distance_meters, time_seconds)

(***************************************************************************)
(* Lap metrics calculator                                                  *)
(***************************************************************************)
\* valid_hr = [hr for hr in heartrate_list if hr and hr > 0]
valid_hr(heartrate_list) == SelectSeq(heartrate_list, LAMBDA hr : hr # None /\ hr # 0 /\ hr > 0)

\* int(sum(valid_hr) / len(valid_hr)) for positive samples: truncation
hr_average_Mut(valid) == (2 * SeqSum(valid) + Len(valid)) \div (2 * Len(valid))
hr_average(valid) == SeqSum(valid) \div Len(valid)

RECURSIVE elevation_gain_of(_)
elevation_gain_of(altitude_list) ==
    IF Len(altitude_list) < 2 THEN 0
    ELSE LET diff == altitude_list[2] - altitude_list[1]
         IN  (IF diff > 0 THEN diff ELSE 0) + elevation_gain_of(Tail(altitude_list))

RECURSIVE elevation_loss_of_Mut(_)
elevation_loss_of_Mut(altitude_list) ==
    IF Len(altitude_list) < 2 THEN 0
    ELSE LET diff == altitude_list[2] - altitude_list[1]
         IN  (IF diff > 0 THEN 0 ELSE diff) + elevation_loss_of_Mut(Tail(altitude_list))

RECURSIVE elevation_loss_of(_)
elevation_loss_of(altitude_list) ==
    IF Len(altitude_list) < 2 THEN 0
    ELSE LET diff == altitude_list[2] - altitude_list[1]
         IN  (IF diff > 0 THEN 0 ELSE Abs(diff)) + elevation_loss_of(Tail(altitude_list))

_calculate_lap_metrics(distance_list, time_list, heartrate_list, altitude_list) ==
    IF distance_list = <<>> \/ time_list = <<>> THEN EmptyDict
    ELSE LET lap_distance == distance_list[Len(distance_list)] - distance_list[1]
             lap_time     == time_list[Len(time_list)] - time_list[1]
             valid        == valid_hr(heartrate_list)
         IN  [distance_meters |-> lap_distance, time_seconds |-> lap_time]
             @@ (IF heartrate_list # <<>> /\ valid # <<>>
                 THEN [avg_heartrate |-> hr_average(valid), max_heartrate |-> SeqMax(valid)]
                 ELSE EmptyDict)
             @@ (IF Len(altitude_list) > 1
                 THEN [elevation_gain |-> elevation_gain_of(altitude_list),
                       elevation_loss |-> elevation_loss_of(altitude_list)]
                 ELSE EmptyDict)

(***************************************************************************)
(* Stream segmenter                                                        *)
(***************************************************************************)
lap_distance_default == 1000

\* the test of the scan: distance - current_lap_distance >= lap_distance
closes_lap(distance, current_lap_distance, lap_distance) ==
    distance - current_lap_distance >= lap_distance

\* lap_start_index = i + 1
next_lap_start(i) == i + 1

\* the test after the scan: lap_start_index < len(distance_data)
final_lap_due_Mut(lap_start_index, n) == lap_start_index + 1 < n
final_lap_due(lap_start_index, n) == lap_start_index < n

\* The for loop of calculate_laps_from_streams from index i (0-based) on, and
\* the final lap after it.  The result is the list of the slices handed to
\* _calculate_lap_metrics, a slice [lo:hi] being [lo |-> lo, hi |-> hi];
\* partial marks the slice of the final lap.
RECURSIVE lap_scan(_, _, _, _, _, _)
lap_scan(distance_data, lap_distance, i, current_lap_distance, lap_start_index, acc) ==
    IF i = Len(distance_data)
    THEN IF final_lap_due(lap_start_index, Len(distance_data))
         THEN Append(acc, [lo |-> lap_start_index, hi |-> Len(distance_data), partial |-> TRUE])
         ELSE acc
    ELSE IF closes_lap(distance_data[i + 1], current_lap_distance, lap_distance)
         THEN lap_scan(distance_data, lap_distance, i + 1, distance_data[i + 1],
                       next_lap_start(i),
                       Append(acc, [lo |-> lap_start_index, hi |-> i + 1, partial |-> FALSE]))
         ELSE lap_scan(distance_data, lap_distance, i + 1, current_lap_distance,
                       lap_start_index, acc)

\* streams[c].data, or the empty list when the channel is not there
channel_data(streams, c) == IF c \in DOMAIN streams THEN streams[c] ELSE <<>>

lap_slices(streams, lap_distance) ==
    IF ~Has(streams, "distance") \/ ~Has(streams, "time") THEN <<>>
    ELSE lap_scan(streams["distance"], lap_distance, 0, 0, 0, <<>>)

calculate_laps_from_streams(streams, lap_distance) ==
    LET sl == lap_slices(streams, lap_distance)
    IN  [k \in 1..Len(sl) |->
            _calculate_lap_metrics(
                Slice(streams["distance"], sl[k].lo, sl[k].hi),
                Slice(streams["time"], sl[k].lo, sl[k].hi),
                Slice(channel_data(streams, "heartrate"), sl[k].lo, sl[k].hi),
                Slice(channel_data(streams, "altitude"), sl[k].lo, sl[k].hi))]

(***************************************************************************)
(* Strava ingestion: conversions of parse_strava_activity                  *)
(***************************************************************************)
\* Python truthiness of a number or None
Truthy(v) == v # None /\ v # 0

\* "f(x) if x else default"
IfSet(v, default) == IF Truthy(v) THEN v ELSE default

\* meters / 1000.0: kilometres, counted in thousandths of a kilometre
meters_to_km(meters) == meters

\* km * 1000: meters of a kilometre value
km_to_meters(km) == km

\* the dict built from one client lap object (also from the activity object)
strava_lap_data(lap) ==
    [distance_meters |-> IfSet(lap.distance, 0),
     time_seconds    |-> IfSet(lap.elapsed_time, 0),
     avg_heartrate   |-> IfSet(lap.average_heartrate, None),
     max_heartrate   |-> IfSet(lap.max_heartrate, None),
     elevation_gain  |-> IfSet(lap.total_elevation_gain, 0),
     elevation_loss  |-> 0,
     calories        |-> IfSet(lap.calories, None)]

\* the guard of the whole-activity lap: activity.distance and activity.elapsed_time
has_activity_totals_Mut(activity) == Truthy(activity.distance)
has_activity_totals(activity) == Truthy(activity.distance) /\ Truthy(activity.elapsed_time)

strava_summary_data(activity) ==
    [total_time           |-> IfSet(activity.elapsed_time, 0),
     total_distance       |-> IF Truthy(activity.distance)
                              THEN meters_to_km(activity.distance) ELSE 0,
     total_calories       |-> IfSet(activity.calories, None),
     avg_heartrate        |-> IfSet(activity.average_heartrate, None),
     max_heartrate        |-> IfSet(activity.max_heartrate, None),
     total_elevation_gain |-> IfSet(activity.total_elevation_gain, 0),
     total_elevation_loss |-> 0]

(***************************************************************************)
(* Structured-lap extractor: parse_tcx_data                                *)
(* A Lap element is a dict of the child elements it has; "altitudes" is    *)
(* the list of the AltitudeMeters values of its TrackPoints.               *)
(***************************************************************************)
tcx_lap_data(lap) ==
    LET distance_meters == Get(lap, "DistanceMeters", 0)
        time_seconds    == Get(lap, "TotalTimeSeconds", 0)
        elevations      == Get(lap, "altitudes", <<>>)
    IN  [distance_meters |-> distance_meters, time_seconds |-> time_seconds]
        @@ (IF Has(lap, "Calories") THEN [calories |-> lap["Calories"]] ELSE EmptyDict)
        @@ (IF Has(lap, "AverageHeartRateBpm")
            THEN [avg_heartrate |-> lap["AverageHeartRateBpm"]] ELSE EmptyDict)
        @@ (IF Has(lap, "MaximumHeartRateBpm")
            THEN [max_heartrate |-> lap["MaximumHeartRateBpm"]] ELSE EmptyDict)
        @@ (IF distance_meters > 0 /\ time_seconds > 0
            THEN [pace |-> calculate_pace_from_distance_time(distance_meters, time_seconds)]
            ELSE EmptyDict)
        @@ (IF elevations # <<>>
            THEN [elevation_gain |-> elevation_gain_of(elevations),
                  elevation_loss |-> elevation_loss_of(elevations)]
            ELSE EmptyDict)

tcx_laps_data(laps) == [k \in 1..Len(laps) |-> tcx_lap_data(laps[k])]

\* the values of key k of the laps that have it, in lap order
RECURSIVE Present(_, _)
Present(laps, k) ==
    IF laps = <<>> THEN <<>>
    ELSE (IF Has(Head(laps), k) THEN <<Head(laps)[k]>> ELSE <<>>) \o Present(Tail(laps), k)

\* total_time of parse_tcx_data: the sum of the lap times
tcx_total_time(laps) == SeqSum(Present(laps, "TotalTimeSeconds"))

tcx_summary_data(laps) ==
    LET laps_data      == tcx_laps_data(laps)
        all_heartrates == Present(laps, "AverageHeartRateBpm")
    IN  [total_time           |-> tcx_total_time(laps),
         total_distance       |-> meters_to_km(SeqSum(Present(laps, "DistanceMeters"))),
         total_calories       |-> SeqSum(Present(laps, "Calories")),
         avg_heartrate        |-> IF all_heartrates # <<>>
                                  THEN SeqSum(all_heartrates) \div Len(all_heartrates)
                                  ELSE None,
         max_heartrate        |-> IF all_heartrates # <<>> THEN SeqMax(all_heartrates) ELSE None,
         total_elevation_gain |-> SeqSum([k \in 1..Len(laps_data) |->
                                            Get(laps_data[k], "elevation_gain", 0)]),
         total_elevation_loss |-> SeqSum([k \in 1..Len(laps_data) |->
                                            Get(laps_data[k], "elevation_loss", 0)])]

(***************************************************************************)
(* Report generator: generate_csv                                          *)
(* A cell is the text written: str(v) of a number v is <<v>>, the empty    *)
(* string is <<>>, a time is <<minutes, secs, millis>>, a pace is          *)
(* <<minutes, seconds>>.                                                   *)
(***************************************************************************)
Str(v) == <<v>>
EmptyStr == <<>>
DashDash == <<None, None>>      \* the literal '--'

\* f"{km:.2f}": hundredths of a kilometre, nearest
format_2f(km) == Str((km + 5) \div 10)

\* str(d.get(k, '') or '')
render_optional(d, k) == IF Has(d, k) /\ Truthy(d[k]) THEN Str(d[k]) ELSE EmptyStr

\* the optional columns, by the key of the lap dict that fills them
OptionalColumns ==
    {"avg_heartrate", "max_heartrate", "elevation_gain", "elevation_loss",
     "avg_power", "avg_power_per_kg", "max_power", "max_power_per_kg",
     "avg_cadence", "avg_ground_contact_time", "gct_balance", "avg_stride_length",
     "avg_vertical_oscillation", "avg_vertical_ratio", "calories", "avg_temperature",
     "max_cadence", "pace_loss", "pace_loss_percent"}

\* the key of the summary dict that fills optional column c of the summary row
summary_key(c) ==
    CASE c = "elevation_gain" -> "total_elevation_gain"
      [] c = "elevation_loss" -> "total_elevation_loss"
      [] c = "calories"       -> "total_calories"
      [] OTHER                -> c

\* cumulative_time / cumulative_distance after the first n laps
RECURSIVE cumulative_time_after(_, _)
cumulative_time_after(laps_data, n) ==
    IF n = 0 THEN 0
    ELSE cumulative_time_after(laps_data, n - 1) + Get(laps_data[n], "time_seconds", 0)

RECURSIVE cumulative_distance_after(_, _)
cumulative_distance_after(laps_data, n) ==
    IF n = 0 THEN 0
    ELSE cumulative_distance_after(laps_data, n - 1)
         + meters_to_km(Get(laps_data[n], "distance_meters", 0))

\* pace of a numbered row
lap_pace(lap, cumulative_time) ==
    calculate_pace_from_distance_time(Get(lap, "distance_meters", 0), Get(lap, "time_seconds", 0))

\* column of a carried pace: lap.get(k, pace)
carried_pace_Mut(lap, k, pace) == pace
carried_pace(lap, k, pace) == Get(lap, k, pace)

\* the row of lap number i
lap_row(i, lap, cumulative_time) ==
    LET lap_time     == Get(lap, "time_seconds", 0)
        lap_distance == meters_to_km(Get(lap, "distance_meters", 0))
        pace         == lap_pace(lap, cumulative_time)
    IN  [lap_no              |-> Str(i),
         time                |-> format_time(lap_time),
         cumulative_time     |-> format_time(cumulative_time),
         distance_km         |-> format_2f(lap_distance),
         pace                |-> pace,
         grade_adjusted_pace |-> carried_pace(lap, "grade_adjusted_pace", pace),
         best_pace           |-> carried_pace(lap, "best_pace", pace),
         moving_time         |-> format_time(Get(lap, "moving_time", lap_time)),
         moving_pace         |-> carried_pace(lap, "moving_pace", pace)]
        @@ [c \in OptionalColumns |-> render_optional(lap, c)]

\* the summary row
stats_row(summary_data, cumulative_time, cumulative_distance) ==
    LET total_time     == Get(summary_data, "total_time", cumulative_time)
        total_distance == Get(summary_data, "total_distance", cumulative_distance)
        avg_pace       == IF total_distance > 0 /\ total_time > 0
                          THEN calculate_pace_from_distance_time(
                                   km_to_meters(total_distance), total_time)
                          ELSE <<0, 0>>
    IN  [lap_no              |-> <<"stats">>,
         time                |-> format_time(total_time),
         cumulative_time     |-> format_time(total_time),
         distance_km         |-> format_2f(total_distance),
         pace                |-> avg_pace,
         grade_adjusted_pace |-> Get(summary_data, "grade_adjusted_pace", avg_pace),
         best_pace           |-> Get(summary_data, "best_pace", avg_pace),
         moving_time         |-> format_time(Get(summary_data, "moving_time", total_time)),
         moving_pace         |-> Get(summary_data, "moving_pace", avg_pace)]
        @@ [c \in {"pace_loss", "pace_loss_percent"} |-> DashDash]
        @@ [c \in OptionalColumns |-> render_optional(summary_data, summary_key(c))]

\* generate_csv: the rows written, and the running sums after the last lap
generate_csv(laps_data, summary_data) ==
    LET n == Len(laps_data)
    IN  [rows  |-> [i \in 1..n |-> lap_row(i, laps_data[i], cumulative_time_after(laps_data, i))],
         stats |-> stats_row(summary_data, cumulative_time_after(laps_data, n),
                             cumulative_distance_after(laps_data, n)),
         cumulative_time     |-> cumulative_time_after(laps_data, n),
         cumulative_distance |-> cumulative_distance_after(laps_data, n)]

(***************************************************************************)
(* State                                                                   *)
(***************************************************************************)
VARIABLES
    pc,            \* position of the running call
    config,        \* the arguments of the batch export call
    idx,           \* number of activity ids the loop is done with
    success_count, \* success_count of the batch loop
    fail_count,    \* fail_count of the batch loop
    attempted,     \* the activity ids whose loop body was entered, in order
    results,       \* "succeeded" / "failed" as counted, per finished activity
    disk,          \* the report file of each activity id, as this run left it
    log,           \* the steps taken for the activity at hand, in order
    activity,      \* the activity object the client returned
    tcx,           \* the content of the TCX file read
    streams,       \* the sample channels of the activity at hand
    laps_data,     \* laps_data of the ingestion path
    summary_data,  \* summary_data of the ingestion path
    csv,           \* what generate_csv produced
    slices         \* the slices the segmenter handed to _calculate_lap_metrics

batchVars == <<config, idx, success_count, fail_count, attempted, results, disk>>
activityVars == <<log, activity, tcx, streams, laps_data, summary_data, csv, slices>>
vars == <<pc, config, idx, success_count, fail_count, attempted, results, disk,
          log, activity, tcx, streams, laps_data, summary_data, csv, slices>>

NoActivity ==
    [distance |-> None, elapsed_time |-> None, average_heartrate |-> None,
     max_heartrate |-> None, total_elevation_gain |-> None, calories |-> None]

NoTcx == [well_formed |-> TRUE, laps |-> <<>>]

NoConfig == [entry |-> "none", platform |-> "none", client |-> FALSE,
             data_dir |-> FALSE, file_suffix |-> "none", activity_ids |-> <<>>]

\* no batch is running: a single function is applied
NoBatch ==
    /\ config = NoConfig
    /\ idx = 0 /\ success_count = 0 /\ fail_count = 0
    /\ attempted = <<>> /\ results = <<>>
    /\ disk = <<>>

\* nothing is known yet of the activity at hand
NothingYet ==
    /\ log = <<>>
    /\ activity = NoActivity
    /\ tcx = NoTcx
    /\ streams = EmptyDict
    /\ laps_data = <<>>
    /\ summary_data = EmptyDict
    /\ csv = EmptyDict
    /\ slices = <<>>

(***************************************************************************)
(* Inputs                                                                  *)
(***************************************************************************)
DistVals == {0, 300, 700, 1050, 1800, 2000}
ExampleDistances == <<0, 300, 700, 1050, 1800, 2000>>
DistSeqs == SeqsUpTo(DistVals, MaxLen) \cup {ExampleDistances}

CanonTime(n) == [k \in 1..n |-> 90 * (k - 1)]
CanonHR(n)   == [k \in 1..n |-> IF k % 3 = 0 THEN 0 ELSE 150 + k]
CanonAlt(n)  == [k \in 1..n |-> 100 + 5 * (k % 3)]

Channel(name, dataSet) == {EmptyDict} \cup {name :> d : d \in dataSet}

\* the channels that may come with the distance data d: a time channel of
\* the same length or one sample short, heart rates and altitudes or not
SegInputsFor(d) ==
    {c1 @@ c2 @@ c3 @@ c4 :
        c1 \in Channel("distance", {d}),
        c2 \in Channel("time", {CanonTime(Len(d)), CanonTime(Len(d) - 1)}),
        c3 \in Channel("heartrate", {CanonHR(Len(d))}),
        c4 \in Channel("altitude", {CanonAlt(Len(d))})}

SegInputs == UNION {SegInputsFor(d) : d \in DistSeqs}

(***************************************************************************)
(* SpecSeg: calculate_laps_from_streams applied to a drawn sample series   *)
(***************************************************************************)
InitSeg ==
    /\ pc = "segment"
    /\ NoBatch
    /\ streams \in SegInputs
    /\ log = <<>> /\ activity = NoActivity /\ tcx = NoTcx
    /\ laps_data = <<>> /\ summary_data = EmptyDict /\ csv = EmptyDict
    /\ slices = <<>>

Segment ==
    /\ pc = "segment"
    /\ laps_data' = calculate_laps_from_streams(streams, lap_distance_default)
    /\ slices' = lap_slices(streams, lap_distance_default)
    /\ pc' = "segmented"
    /\ UNCHANGED <<batchVars, log, activity, tcx, streams, summary_data, csv>>

NextSeg == Segment

SpecSeg == InitSeg /\ [][NextSeg]_vars

(***************************************************************************)
(* SpecMetrics: _calculate_lap_metrics applied to a drawn sample window    *)
(***************************************************************************)
HRVals  == {None, -5, 0, 150, 151}
AltVals == {100, 102, 105, 110}
ExampleAltitudes == <<100, 105, 102, 110>>

CanonDist(n) == [k \in 1..n |-> 400 * k]

\* a window of n samples: either the heart rates or the altitudes are drawn,
\* the other channel is absent or the canonical one
WindowsOf(n) ==
    {("distance" :> CanonDist(n)) @@ ("time" :> CanonTime(n))
        @@ ("heartrate" :> h) @@ ("altitude" :> a) :
        h \in {x \in SeqsUpTo(HRVals, MaxWin) : Len(x) = n},
        a \in {<<>>, CanonAlt(n)}}
    \cup
    {("distance" :> CanonDist(n)) @@ ("time" :> CanonTime(n))
        @@ ("heartrate" :> h) @@ ("altitude" :> a) :
        h \in {<<>>, CanonHR(n)},
        a \in {x \in SeqsUpTo(AltVals, MaxWin) \cup {ExampleAltitudes} : Len(x) = n}}

WindowInputs == UNION {WindowsOf(n) : n \in 0..(MaxWin + 1)}

InitMetrics ==
    /\ pc = "measure"
    /\ NoBatch
    /\ streams \in WindowInputs
    /\ log = <<>> /\ activity = NoActivity /\ tcx = NoTcx
    /\ laps_data = <<>> /\ summary_data = EmptyDict /\ csv = EmptyDict
    /\ slices = <<>>

Measure ==
    /\ pc = "measure"
    /\ laps_data' = <<_calculate_lap_metrics(streams["distance"], streams["time"],
                                             streams["heartrate"], streams["altitude"])>>
    /\ pc' = "measured"
    /\ UNCHANGED <<batchVars, log, activity, tcx, streams, summary_data, csv, slices>>

NextMetrics == Measure

SpecMetrics == InitMetrics /\ [][NextMetrics]_vars

(***************************************************************************)
(* Spec: a batch export (export_activities_to_csv or                       *)
(* export_activities_from_files) over a list of activity ids               *)
(***************************************************************************)
MaxActs == 2         \* longest drawn list of activity ids
MaxClientLaps == 2   \* longest drawn list of client lap objects
MaxTcxLaps == 2      \* most Lap elements of a drawn TCX file

Configs ==
    {[entry |-> "to_csv", platform |-> p, client |-> c, data_dir |-> ~c,
      file_suffix |-> "none", activity_ids |-> [k \in 1..n |-> k]] :
        p \in {"strava", "tcx", "gpx", "keep"}, c \in BOOLEAN, n \in 0..MaxActs}
    \cup
    {[entry |-> "from_files", platform |-> "tcx", client |-> FALSE, data_dir |-> TRUE,
      file_suffix |-> f, activity_ids |-> [k \in 1..n |-> k]] :
        f \in {"tcx", "gpx"}, n \in 0..MaxActs}

Activities ==
    {[distance |-> d, elapsed_time |-> t, average_heartrate |-> h,
      max_heartrate |-> IF h = None THEN None ELSE h + 20,
      total_elevation_gain |-> g, calories |-> IF h = None THEN None ELSE 120] :
        d \in {None, 2000}, t \in {None, 600}, h \in {None, 150}, g \in {None, 25}}

ClientLapObjects ==
    {[distance |-> 1000, elapsed_time |-> 300, average_heartrate |-> 150,
      max_heartrate |-> 160, total_elevation_gain |-> 10, calories |-> 60],
     [distance |-> 950, elapsed_time |-> 290, average_heartrate |-> None,
      max_heartrate |-> None, total_elevation_gain |-> None, calories |-> None]}

ClientLapLists == SeqsUpTo(ClientLapObjects, MaxClientLaps)

StravaStreams ==
    UNION {SegInputsFor(d) : d \in {<<>>, <<0, 1000>>, <<500, 1600, 1700>>, ExampleDistances}}

TcxLapElements ==
    {[DistanceMeters |-> 1000, TotalTimeSeconds |-> 300, Calories |-> 60,
      AverageHeartRateBpm |-> 150, MaximumHeartRateBpm |-> 165,
      altitudes |-> <<100, 105, 102>>],
     [DistanceMeters |-> 500, TotalTimeSeconds |-> 200,
      AverageHeartRateBpm |-> 141, MaximumHeartRateBpm |-> 190, altitudes |-> <<100>>],
     [TotalTimeSeconds |-> 100],
     EmptyDict}

TcxDocs ==
    {[well_formed |-> TRUE, laps |-> l] : l \in SeqsUpTo(TcxLapElements, MaxTcxLaps)}
    \cup {[well_formed |-> FALSE, laps |-> <<>>]}

Init ==
    /\ pc = "start"
    /\ config \in Configs
    /\ idx = 0 /\ success_count = 0 /\ fail_count = 0
    /\ attempted = <<>> /\ results = <<>>
    /\ disk = [i \in 1..Len(config.activity_ids) |-> "absent"]
    /\ NothingYet

CurrentId == config.activity_ids[idx + 1]

\* if platform == 'strava' and client
UsesStrava == config.entry = "to_csv" /\ config.platform = "strava" /\ config.client

\* elif platform in ['tcx', 'gpx', 'fit'] and data_dir; always in export_activities_from_files
UsesFiles ==
    \/ config.entry = "from_files"
    \/ /\ config.entry = "to_csv" /\ ~UsesStrava
       /\ config.platform \in {"tcx", "gpx", "fit"} /\ config.data_dir

FileFormat == IF config.entry = "from_files" THEN config.file_suffix ELSE config.platform

\* fail_count += 1
fail_counted_Mut(n) == n
fail_counted(n) == n + 1

\* success_count += 1
success_counted(n) == n + 1

\* the for loop goes on to the next activity id
next_activity(i) == i + 1

\* the loop body ends: the activity is counted and the loop goes on
Finish(outcome) ==
    /\ idx' = next_activity(idx)
    /\ results' = Append(results, outcome)
    /\ success_count' = IF outcome = "succeeded" THEN success_counted(success_count)
                        ELSE success_count
    /\ fail_count' = IF outcome = "failed" THEN fail_counted(fail_count) ELSE fail_count
    /\ pc' = "loop"
    /\ UNCHANGED config

Logged(events) == log' = log \o events

\* if not activity_ids: return
BatchStart ==
    /\ pc = "start"
    /\ pc' = IF config.activity_ids = <<>> THEN "returned" ELSE "loop"
    /\ UNCHANGED <<batchVars, activityVars>>

\* the for loop is exhausted: the counts are printed
LoopDone ==
    /\ pc = "loop" /\ idx >= Len(config.activity_ids)
    /\ pc' = "completed"
    /\ UNCHANGED <<batchVars, activityVars>>

InLoop == pc = "loop" /\ idx < Len(config.activity_ids)

Fresh ==
    /\ activity' = NoActivity /\ tcx' = NoTcx /\ streams' = EmptyDict
    /\ laps_data' = <<>> /\ summary_data' = EmptyDict /\ csv' = EmptyDict /\ slices' = <<>>

LoopStrava ==
    /\ InLoop /\ UsesStrava
    /\ attempted' = Append(attempted, CurrentId)
    /\ log' = <<>> /\ Fresh
    /\ pc' = "get_activity"
    /\ UNCHANGED <<config, idx, success_count, fail_count, results, disk>>

\* os.path.exists(filepath) is false
LoopFileMissing ==
    /\ InLoop /\ UsesFiles
    /\ attempted' = Append(attempted, CurrentId)
    /\ log' = <<"file_missing">> /\ Fresh
    /\ Finish("failed")
    /\ UNCHANGED disk

LoopFileTcx ==
    /\ InLoop /\ UsesFiles /\ FileFormat = "tcx"
    /\ attempted' = Append(attempted, CurrentId)
    /\ log' = <<>> /\ Fresh
    /\ pc' = "read_tcx"
    /\ UNCHANGED <<config, idx, success_count, fail_count, results, disk>>

LoopFileUnsupported ==
    /\ InLoop /\ UsesFiles /\ FileFormat # "tcx"
    /\ attempted' = Append(attempted, CurrentId)
    /\ log' = <<"unsupported_format">> /\ Fresh
    /\ Finish("failed")
    /\ UNCHANGED disk

LoopUnsupported ==
    /\ InLoop /\ ~UsesStrava /\ ~UsesFiles
    /\ attempted' = Append(attempted, CurrentId)
    /\ log' = <<"unsupported_platform">> /\ Fresh
    /\ Finish("failed")
    /\ UNCHANGED disk

(* parse_strava_activity *)

\* client.get_activity raises: the exception reaches the batch loop
GetActivityFails ==
    /\ pc = "get_activity"
    /\ Logged(<<"get_activity_failed">>)
    /\ Finish("failed")
    /\ UNCHANGED <<attempted, disk, activity, tcx, streams, laps_data, summary_data, csv, slices>>

GetActivity ==
    /\ pc = "get_activity"
    /\ activity' \in Activities
    /\ Logged(<<"get_activity">>)
    /\ pc' = "get_laps"
    /\ UNCHANGED <<batchVars, tcx, streams, laps_data, summary_data, csv, slices>>

\* the first k client lap objects as dicts
converted_laps(laps, k) == [j \in 1..k |-> strava_lap_data(laps[j])]

\* client.get_activity_laps, or the iteration over its result, raises after k
\* laps were converted and appended
GetLapsFails ==
    /\ pc = "get_laps"
    /\ \E laps \in ClientLapLists : \E k \in 0..Len(laps) :
           laps_data' = converted_laps(laps, k)
    /\ Logged(<<"get_laps", "laps_failed">>)
    /\ pc' = "get_streams"
    /\ UNCHANGED <<batchVars, activity, tcx, streams, summary_data, csv, slices>>

GetLaps ==
    /\ pc = "get_laps"
    /\ \E laps \in ClientLapLists : laps_data' = converted_laps(laps, Len(laps))
    /\ Logged(<<"get_laps", "laps_converted">>)
    /\ pc' = "summary"
    /\ UNCHANGED <<batchVars, activity, tcx, streams, summary_data, csv, slices>>

GetStreamsFails ==
    /\ pc = "get_streams"
    /\ Logged(<<"get_streams", "streams_failed">>)
    /\ pc' = "fallback"
    /\ UNCHANGED <<batchVars, activity, tcx, streams, laps_data, summary_data, csv, slices>>

GetStreams ==
    /\ pc = "get_streams"
    /\ streams' \in StravaStreams
    /\ Logged(<<"get_streams">>)
    /\ pc' = "segment"
    /\ UNCHANGED <<batchVars, activity, tcx, laps_data, summary_data, csv, slices>>

\* laps_data = self.calculate_laps_from_streams(streams, activity)
SegmentStreams ==
    /\ pc = "segment"
    /\ laps_data' = calculate_laps_from_streams(streams, lap_distance_default)
    /\ slices' = lap_slices(streams, lap_distance_default)
    /\ Logged(<<"segmented">>)
    /\ pc' = "summary"
    /\ UNCHANGED <<batchVars, activity, tcx, streams, summary_data, csv>>

\* except Exception as e2: the whole-activity lap, if the activity has totals
Fallback ==
    /\ pc = "fallback"
    /\ IF has_activity_totals(activity)
       THEN laps_data' = <<strava_lap_data(activity)>> /\ Logged(<<"whole_activity_lap">>)
       ELSE UNCHANGED laps_data /\ Logged(<<"no_fallback">>)
    /\ pc' = "summary"
    /\ UNCHANGED <<batchVars, activity, tcx, streams, summary_data, csv, slices>>

BuildSummary ==
    /\ pc = "summary"
    /\ summary_data' = strava_summary_data(activity)
    /\ Logged(<<"parsed">>)
    /\ pc' = "check_laps"
    /\ UNCHANGED <<batchVars, activity, tcx, streams, laps_data, csv, slices>>

(* export_activity_from_tcx *)

\* open / read of the TCX file raises
ReadTcxFails ==
    /\ pc = "read_tcx"
    /\ Logged(<<"read_failed">>)
    /\ Finish("failed")
    /\ UNCHANGED <<attempted, disk, activity, tcx, streams, laps_data, summary_data, csv, slices>>

ReadTcx ==
    /\ pc = "read_tcx"
    /\ tcx' \in TcxDocs
    /\ Logged(<<"read">>)
    /\ pc' = "parse_tcx"
    /\ UNCHANGED <<batchVars, activity, streams, laps_data, summary_data, csv, slices>>

\* parse_tcx_data raises on a malformed document
ParseTcxFails ==
    /\ pc = "parse_tcx" /\ ~tcx.well_formed
    /\ Logged(<<"parse_failed">>)
    /\ Finish("failed")
    /\ UNCHANGED <<attempted, disk, activity, tcx, streams, laps_data, summary_data, csv, slices>>

ParseTcx ==
    /\ pc = "parse_tcx" /\ tcx.well_formed
    /\ laps_data' = tcx_laps_data(tcx.laps)
    /\ summary_data' = tcx_summary_data(tcx.laps)
    /\ Logged(<<"parsed">>)
    /\ pc' = "check_laps"
    /\ UNCHANGED <<batchVars, activity, tcx, streams, csv, slices>>

(* the rest of export_activity_from_strava / export_activity_from_tcx *)

\* if not laps_data: warning and return; the batch loop counts a success
NoLaps ==
    /\ pc = "check_laps" /\ laps_data = <<>>
    /\ Logged(<<"no_laps">>)
    /\ Finish("succeeded")
    /\ UNCHANGED <<attempted, disk, activity, tcx, streams, laps_data, summary_data, csv, slices>>

Generate ==
    /\ pc = "check_laps" /\ laps_data # <<>>
    /\ csv' = generate_csv(laps_data, summary_data)
    /\ Logged(<<"generated">>)
    /\ pc' = "save_open"
    /\ UNCHANGED <<batchVars, activity, tcx, streams, laps_data, summary_data, slices>>

\* save_csv: open(filepath, 'w') raises, the file system is left as it was
SaveOpenFails ==
    /\ pc = "save_open"
    /\ Logged(<<"open_failed">>)
    /\ Finish("failed")
    /\ UNCHANGED <<attempted, disk, activity, tcx, streams, laps_data, summary_data, csv, slices>>

\* save_csv: open(filepath, 'w') creates or truncates the file
SaveOpen ==
    /\ pc = "save_open"
    /\ disk' = [disk EXCEPT ![CurrentId] = "partial"]
    /\ Logged(<<"opened">>)
    /\ pc' = "save_write"
    /\ UNCHANGED <<config, idx, success_count, fail_count, attempted, results,
                   activity, tcx, streams, laps_data, summary_data, csv, slices>>

\* save_csv: f.write raises; the exception is printed and raised again
SaveWriteFails ==
    /\ pc = "save_write"
    /\ Logged(<<"write_failed">>)
    /\ Finish("failed")
    /\ UNCHANGED <<attempted, disk, activity, tcx, streams, laps_data, summary_data, csv, slices>>

SaveWrite ==
    /\ pc = "save_write"
    /\ disk' = [disk EXCEPT ![CurrentId] = "complete"]
    /\ Logged(<<"written">>)
    /\ Finish("succeeded")
    /\ UNCHANGED <<attempted, activity, tcx, streams, laps_data, summary_data, csv, slices>>

Next ==
    \/ BatchStart \/ LoopDone
    \/ LoopStrava \/ LoopFileMissing \/ LoopFileTcx \/ LoopFileUnsupported \/ LoopUnsupported
    \/ GetActivityFails \/ GetActivity \/ GetLapsFails \/ GetLaps
    \/ GetStreamsFails \/ GetStreams \/ SegmentStreams \/ Fallback \/ BuildSummary
    \/ ReadTcxFails \/ ReadTcx \/ ParseTcxFails \/ ParseTcx
    \/ NoLaps \/ Generate \/ SaveOpenFails \/ SaveOpen \/ SaveWriteFails \/ SaveWrite

Spec == Init /\ [][Next]_vars

(***************************************************************************)
(* SpecCsv: generate_csv applied to drawn laps.  The laps are laps an      *)
(* ingestion path builds, with or without the carried paces of the Lap     *)
(* data model.                                                             *)
(***************************************************************************)
MaxCsvLaps == 2      \* longest drawn list of laps given to generate_csv

CarriedPaces ==
    {EmptyDict,
     [grade_adjusted_pace |-> <<4, 40>>],
     [best_pace |-> <<3, 55>>, moving_pace |-> <<4, 50>>, moving_time |-> 280],
     [grade_adjusted_pace |-> <<5, 10>>, best_pace |-> <<4, 0>>, moving_pace |-> <<5, 5>>]}

CsvBaseLaps ==
    {tcx_lap_data(e) : e \in TcxLapElements}
    \cup {strava_lap_data(o) : o \in ClientLapObjects}

CsvLaps == {base @@ carried : base \in CsvBaseLaps, carried \in CarriedPaces}

CsvSummaries == {EmptyDict, [total_time |-> 600, total_distance |-> meters_to_km(2000)]}

InitCsv ==
    /\ pc = "generate"
    /\ NoBatch
    /\ laps_data \in SeqsUpTo(CsvLaps, MaxCsvLaps) \ {<<>>}
    /\ summary_data \in CsvSummaries
    /\ log = <<>> /\ activity = NoActivity /\ tcx = NoTcx /\ streams = EmptyDict
    /\ csv = EmptyDict /\ slices = <<>>

GenerateReport ==
    /\ pc = "generate"
    /\ csv' = generate_csv(laps_data, summary_data)
    /\ pc' = "generated"
    /\ UNCHANGED <<batchVars, log, activity, tcx, streams, laps_data, summary_data, slices>>

NextCsv == GenerateReport

SpecCsv == InitCsv /\ [][NextCsv]_vars

(***************************************************************************)
(* Properties of parse_strava_activity                                     *)
(***************************************************************************)
LogHas(e) == \E p \in 1..Len(log) : log[p] = e

\* every step b of the log has a step a before it
Precedes(a, b) ==
    \A p \in 1..Len(log) : log[p] = b => \E q \in 1..(p - 1) : log[q] = a

\* C3: the client's lap objects are tried first; the streams are requested
\* only after the laps failed; the whole-activity lap is built only after
\* the laps and then the streams failed, and only for an activity that has a
\* distance and an elapsed time.
C3_SourcesTriedInOrder ==
    /\ Precedes("get_laps", "get_streams")
    /\ Precedes("laps_failed", "get_streams")
    /\ ~(LogHas("laps_converted") /\ LogHas("get_streams"))
    /\ Precedes("get_streams", "whole_activity_lap")
    /\ Precedes("laps_failed", "whole_activity_lap")
    /\ Precedes("streams_failed", "whole_activity_lap")
    /\ ~(LogHas("segmented") /\ LogHas("whole_activity_lap"))
    /\ ~(LogHas("laps_converted") /\ LogHas("whole_activity_lap"))
    /\ LogHas("whole_activity_lap") =>
           (activity.distance # None /\ activity.distance # 0
            /\ activity.elapsed_time # None /\ activity.elapsed_time # 0)

C3_Witness ==
    /\ pc = "check_laps"
    /\ log = <<"get_activity", "get_laps", "laps_failed", "get_streams", "streams_failed",
               "whole_activity_lap", "parsed">>
    /\ Len(laps_data) = 1
    /\ laps_data[1].distance_meters = activity.distance

\* C4: when the segmenter returned no lap because the distance channel is
\* absent or empty and the activity has a distance and an elapsed time,
\* parse_strava_activity returns the whole-activity lap: a non-empty list.
C4_EmptySegmentationFallsBack ==
    (/\ pc = "check_laps"
     /\ LogHas("segmented")
     /\ (~Has(streams, "distance") \/ streams["distance"] = <<>>)
     /\ activity.distance # None /\ activity.elapsed_time # None)
    => laps_data # <<>>

(***************************************************************************)
(* Properties of the report                                                *)
(***************************************************************************)
LapTimes == [k \in 1..Len(laps_data) |-> Get(laps_data[k], "time_seconds", 0)]
LapDistances == [k \in 1..Len(laps_data) |-> Get(laps_data[k], "distance_meters", 0)]

\* C5: after the last lap of a report made from an ingestion path's laps and
\* summary, the cumulative time and distance are the sums of the lap times
\* and lap distances, and are the totals shown in the summary row.
C5_CumulativeEqualsSummaryTotals ==
    pc = "save_open" =>
        /\ csv.cumulative_time = SeqSum(LapTimes)
        /\ csv.cumulative_distance = meters_to_km(SeqSum(LapDistances))
        /\ format_time(csv.cumulative_time) = csv.stats.time
        /\ format_2f(csv.cumulative_distance) = csv.stats.distance_km

\* C8: in every numbered row and in the summary row an optional numeric field
\* is written as the text of its value whenever it has one, whatever the
\* value, and as the empty text only when it has none.
C8_OptionalFieldsRendered ==
    pc = "save_open" =>
        /\ \A i \in 1..Len(laps_data) : \A c \in OptionalColumns :
               csv.rows[i][c] = IF Has(laps_data[i], c) /\ laps_data[i][c] # None
                                THEN Str(laps_data[i][c]) ELSE EmptyStr
        /\ \A c \in OptionalColumns \ {"pace_loss", "pace_loss_percent"} :
               csv.stats[c] = IF Has(summary_data, summary_key(c))
                                 /\ summary_data[summary_key(c)] # None
                              THEN Str(summary_data[summary_key(c)]) ELSE EmptyStr

ComputedPace(lap) ==
    calculate_pace_from_distance_time(Get(lap, "distance_meters", 0), Get(lap, "time_seconds", 0))

ShownOrComputed(lap, k) == IF Has(lap, k) THEN lap[k] ELSE ComputedPace(lap)

CountOf(outcome) == Cardinality({k \in 1..Len(results) : results[k] = outcome})

\* C6: the activity ids are attempted once each, in list order, whatever
\* became of the earlier ones; every attempt ends counted as succeeded or as
\* failed; when the batch ends, succeeded + failed is the number of ids.
C6_EveryActivityAttemptedAndCounted ==
    /\ Len(attempted) <= Len(config.activity_ids)
    /\ attempted = SubSeq(config.activity_ids, 1, Len(attempted))
    /\ success_count = CountOf("succeeded")
    /\ fail_count = CountOf("failed")
    /\ success_count + fail_count = Len(results)
    /\ Len(results) = IF pc = "loop" \/ pc = "completed" \/ pc = "start" \/ pc = "returned"
                      THEN Len(attempted) ELSE Len(attempted) - 1
    /\ pc = "completed" =>
           /\ attempted = config.activity_ids
           /\ success_count + fail_count = Len(config.activity_ids)

C6_Witness ==
    /\ pc = "completed"
    /\ Len(config.activity_ids) = 2
    /\ results = <<"failed", "succeeded">>
    /\ log[Len(log)] = "written"
    /\ success_count = 1 /\ fail_count = 1

\* C7: the report file is opened for writing only after the parse and the
\* report generation of the activity succeeded, and an activity counted as
\* failed has no report file, complete or partial, left by the run.
C7_NoFileLeftForFailedActivity ==
    /\ Precedes("parsed", "opened")
    /\ Precedes("generated", "opened")
    /\ \A k \in 1..Len(results) :
           results[k] = "failed" => disk[attempted[k]] = "absent"

(***************************************************************************)
(* Properties of the stream segmenter                                      *)
(***************************************************************************)
SegmentedEqualLength ==
    /\ pc = "segmented"
    /\ Has(streams, "distance") /\ Has(streams, "time")
    /\ Len(streams["distance"]) > 0
    /\ Len(streams["time"]) = Len(streams["distance"])

\* C1: with threshold 1000 the distances [0,300,700,1050,1800,2000] give
\* exactly two laps: samples 0-3 with distance_meters 1050, then the final
\* partial lap over samples 4-5 with distance_meters 950.
C1_ExampleTwoLaps ==
    (SegmentedEqualLength /\ streams["distance"] = ExampleDistances) =>
        /\ Len(laps_data) = 2
        /\ slices[1].lo = 0 /\ slices[1].hi = 4
        /\ laps_data[1].distance_meters = 1050
        /\ slices[2].lo = 4 /\ slices[2].hi = 6
        /\ laps_data[2].distance_meters = 950

\* the distance at which lap k was closed (0 before the first lap)
ClosedAt(k) == IF k = 0 THEN 0 ELSE streams["distance"][slices[k].hi]

\* C2: for a non-empty series with equal-length distance and time channels
\* the laps' sample windows are non-empty, in order, disjoint and cover every
\* index; a lap is closed exactly on the first sample that reaches the
\* threshold since the previous close; the final partial lap is emitted
\* exactly when the last sample did not close a lap, and it is the last lap.
C2_WindowsPartitionSeries ==
    SegmentedEqualLength =>
        LET d == streams["distance"]
            n == Len(d)
            m == Len(slices)
        IN  /\ m >= 1
            /\ Len(laps_data) = m
            /\ slices[1].lo = 0
            /\ slices[m].hi = n
            /\ \A k \in 1..m :
                 /\ slices[k].lo < slices[k].hi
                 /\ laps_data[k] # EmptyDict
                 /\ k < m => (slices[k + 1].lo = slices[k].hi /\ ~slices[k].partial)
                 /\ \A j \in (slices[k].lo + 1)..(slices[k].hi - 1) :
                        d[j] - ClosedAt(k - 1) < lap_distance_default
                 /\ slices[k].partial <=> (d[slices[k].hi] - ClosedAt(k - 1) < lap_distance_default)

C2_Witness ==
    /\ SegmentedEqualLength
    /\ Len(slices) >= 2
    /\ slices[Len(slices)].partial
    /\ slices[Len(slices)].hi - slices[Len(slices)].lo = 1
    /\ laps_data[Len(laps_data)].distance_meters = 0

(***************************************************************************)
(* Properties of the lap metrics calculator                                *)
(***************************************************************************)
Measured == pc = "measured" /\ streams["distance"] # <<>>

PositiveSamples(hr) == SelectSeq(hr, LAMBDA x : x # None /\ x > 0)

HeartRateFieldsOmitted(lap) == ~Has(lap, "avg_heartrate") /\ ~Has(lap, "max_heartrate")

HeartRateMaxIs(lap, v) ==
    /\ Has(lap, "max_heartrate")
    /\ \E k \in 1..Len(v) : v[k] = lap["max_heartrate"]
    /\ \A k \in 1..Len(v) : v[k] <= lap["max_heartrate"]

\* C10 as stated: avg_heartrate is the mean of the samples > 0 rounded to the
\* nearest integer, max_heartrate their maximum; both omitted when none remains.
C10_AvgHeartRateRounded ==
    Measured =>
        LET v == PositiveSamples(streams["heartrate"])
            lap == laps_data[1]
        IN  IF v = <<>> THEN HeartRateFieldsOmitted(lap)
            ELSE /\ Has(lap, "avg_heartrate")
                 /\ 2 * Abs(lap["avg_heartrate"] * Len(v) - SeqSum(v)) <= Len(v)
                 /\ HeartRateMaxIs(lap, v)

\* C10 amended: avg_heartrate is the mean of the samples > 0 truncated to an
\* integer (the largest integer not above the mean), max_heartrate their
\* maximum; both omitted when no sample > 0 remains or no channel is given.
C10_AvgHeartRateTruncated ==
    Measured =>
        LET v == PositiveSamples(streams["heartrate"])
            lap == laps_data[1]
        IN  IF v = <<>> THEN HeartRateFieldsOmitted(lap)
            ELSE /\ Has(lap, "avg_heartrate")
                 /\ lap["avg_heartrate"] * Len(v) <= SeqSum(v)
                 /\ SeqSum(v) < (lap["avg_heartrate"] + 1) * Len(v)
                 /\ HeartRateMaxIs(lap, v)

C10_Witness ==
    /\ Measured
    /\ streams["heartrate"] = <<150, None, 151>>
    /\ laps_data[1]["avg_heartrate"] = 150
    /\ laps_data[1]["max_heartrate"] = 151

(***************************************************************************)
(* Properties of parse_tcx_data                                            *)
(***************************************************************************)
TcxParsed == pc = "check_laps" /\ LogHas("read") /\ LogHas("parsed")

AltitudeSamples(k) == Get(tcx.laps[k], "altitudes", <<>>)

\* C11: a lap record gets elevation_gain and elevation_loss exactly when it
\* has at least 2 altitude samples; with 0 or 1 sample both are omitted.
C11_ElevationNeedsTwoSamples ==
    TcxParsed =>
        /\ Len(laps_data) = Len(tcx.laps)
        /\ \A k \in 1..Len(laps_data) :
               /\ Has(laps_data[k], "elevation_gain") <=> Len(AltitudeSamples(k)) >= 2
               /\ Has(laps_data[k], "elevation_loss") <=> Len(AltitudeSamples(k)) >= 2

\* the per-lap values of key k that are present, as parse_tcx_data stored them
LapValues(k) ==
    SelectSeq([j \in 1..Len(laps_data) |-> Get(laps_data[j], k, None)], LAMBDA x : x # None)

\* v is the mean of the sequence s, up to the loss of its fraction
IsMeanOf(v, s) == v * Len(s) <= SeqSum(s) + Len(s) /\ SeqSum(s) <= v * Len(s) + Len(s)

IsMaxOf(v, s) == (\E j \in 1..Len(s) : s[j] = v) /\ (\A j \in 1..Len(s) : s[j] <= v)

\* C12: the Summary's max_heartrate is the maximum of the per-lap maximum
\* heart rates present, its avg_heartrate the mean of the per-lap average
\* heart rates present (None when no lap has one).
C12_SummaryHeartRates ==
    TcxParsed =>
        /\ IF LapValues("avg_heartrate") = <<>> THEN summary_data.avg_heartrate = None
           ELSE IsMeanOf(summary_data.avg_heartrate, LapValues("avg_heartrate"))
        /\ LapValues("max_heartrate") # <<>> =>
               IsMaxOf(summary_data.max_heartrate, LapValues("max_heartrate"))

(***************************************************************************)
(* Properties of the elevation of a sample window                          *)
(***************************************************************************)
\* the rise, and the fall, from each altitude sample to the next
Rises(a) == [k \in 1..(Len(a) - 1) |-> IF a[k + 1] > a[k] THEN a[k + 1] - a[k] ELSE 0]
Falls(a) == [k \in 1..(Len(a) - 1) |-> IF a[k + 1] < a[k] THEN a[k] - a[k + 1] ELSE 0]

NonDecreasing(d) == \A k \in 1..(Len(d) - 1) : d[k] <= d[k + 1]

\* C14: for a series whose cumulative distance is non-decreasing every lap
\* but the final partial one has distance_meters >= the threshold, and the
\* distance_meters of all laps add up to distance[last] - distance[0].
C14_LapDistancesReachThresholdAndAddUp ==
    (SegmentedEqualLength /\ NonDecreasing(streams["distance"])) =>
        LET d == streams["distance"]
        IN  /\ \A k \in 1..Len(laps_data) :
                   ~slices[k].partial => laps_data[k].distance_meters >= lap_distance_default
            /\ SeqSum([k \in 1..Len(laps_data) |-> laps_data[k].distance_meters])
                   = d[Len(d)] - d[1]

(***************************************************************************)
(* Properties of the laps parse_strava_activity returns after a failure of *)
(* the client's laps                                                       *)
(***************************************************************************)
\* the keys of a lap made by _calculate_lap_metrics
StreamLapKeys ==
    {"distance_meters", "time_seconds", "avg_heartrate", "max_heartrate",
     "elevation_gain", "elevation_loss"}

\* C15: when the retrieval of, or the iteration over, the client's laps
\* failed, the returned list holds none of the laps converted before the
\* failure: it is the stream-derived laps, or the single whole-activity lap,
\* or empty.
C15_NoConvertedLapSurvivesFailure ==
    (pc = "check_laps" /\ LogHas("laps_failed")) =>
        IF LogHas("segmented")
        THEN /\ Len(laps_data) = Len(slices)
             /\ \A k \in 1..Len(laps_data) : DOMAIN laps_data[k] \subseteq StreamLapKeys
        ELSE IF LogHas("whole_activity_lap")
        THEN /\ Len(laps_data) = 1
             /\ laps_data[1].distance_meters = activity.distance
             /\ laps_data[1].time_seconds = activity.elapsed_time
        ELSE laps_data = <<>>

====
